---- MODULE Spec2Model ----
(***************************************************************************)
(* Model of airflow/auth/managers/fab/security_manager/override.py:        *)
(* FabAirflowSecurityManagerOverride.  The manager is constructed step by  *)
(* step (__init__), then serves load_user, load_user_jwt and               *)
(* reset_password requests against a user table and a session store.       *)
(***************************************************************************)
EXTENDS Integers, Sequences, FiniteSets, TLC

(***************************************************************************)
(* Bounds and program constants                                            *)
(***************************************************************************)
\* Number of session rows of the store that are modelled one by one.
MaxTracked == 3

\* Number of managers constructed one after the other in one process.
MaxManagers == 2

\* override.py:49
MAX_NUM_DATABASE_USER_SESSIONS == 50000

\* flask_appbuilder.const, imported at override.py:26
AUTH_DB == "AUTH_DB"
AUTH_LDAP == "AUTH_LDAP"
AUTH_OAUTH == "AUTH_OAUTH"
AUTH_OID == "AUTH_OID"
AUTH_REMOTE_USER == "AUTH_REMOTE_USER"

AuthTypes == {AUTH_DB, AUTH_LDAP, AUTH_OAUTH, AUTH_OID, AUTH_REMOTE_USER}

\* Python's None
None == "None"

(***************************************************************************)
(* Configuration (app.config): a function whose domain is the set of keys  *)
(* present.                                                                *)
(***************************************************************************)
\* dict.setdefault
setdefault(cfg, key, value) ==
    IF key \in DOMAIN cfg THEN cfg ELSE cfg @@ (key :> value)

RECURSIVE setdefaults(_, _)
setdefaults(cfg, pairs) ==
    IF pairs = << >> THEN cfg
    ELSE setdefaults(setdefault(cfg, Head(pairs)[1], Head(pairs)[2]), Tail(pairs))

\* property auth_role_public
auth_role_public(cfg) == cfg["AUTH_ROLE_PUBLIC"]

\* property auth_type
auth_type(cfg) == cfg["AUTH_TYPE"]

\* property oauth_providers
oauth_providers(cfg) == cfg["OAUTH_PROVIDERS"]

\* _init_config, lines 382-384: base security config
BaseSecurityDefaults ==
    << <<"AUTH_ROLE_ADMIN", "Admin">>,
       <<"AUTH_ROLE_PUBLIC", "Public">>,
       <<"AUTH_TYPE", AUTH_DB>>,
       <<"AUTH_USER_REGISTRATION", FALSE>> >>

\* _init_config, lines 387-392: self registration and role mapping
RegistrationDefaults(cfg) ==
    << <<"AUTH_USER_REGISTRATION_ROLE", auth_role_public(cfg)>>,
       <<"AUTH_USER_REGISTRATION_ROLE_JMESPATH", None>>,
       <<"AUTH_ROLES_MAPPING", << >> >>,
       <<"AUTH_ROLES_SYNC_AT_LOGIN", FALSE>>,
       <<"AUTH_API_LOGIN_ALLOW_MULTIPLE_PROVIDERS", FALSE>> >>

\* _init_config, lines 398-417: LDAP defaults
LdapDefaults ==
    << <<"AUTH_LDAP_SEARCH", "">>,
       <<"AUTH_LDAP_SEARCH_FILTER", "">>,
       <<"AUTH_LDAP_APPEND_DOMAIN", "">>,
       <<"AUTH_LDAP_USERNAME_FORMAT", "">>,
       <<"AUTH_LDAP_BIND_USER", "">>,
       <<"AUTH_LDAP_BIND_PASSWORD", "">>,
       <<"AUTH_LDAP_USE_TLS", FALSE>>,
       <<"AUTH_LDAP_ALLOW_SELF_SIGNED", FALSE>>,
       <<"AUTH_LDAP_TLS_DEMAND", FALSE>>,
       <<"AUTH_LDAP_TLS_CACERTDIR", "">>,
       <<"AUTH_LDAP_TLS_CACERTFILE", "">>,
       <<"AUTH_LDAP_TLS_CERTFILE", "">>,
       <<"AUTH_LDAP_TLS_KEYFILE", "">>,
       <<"AUTH_LDAP_UID_FIELD", "uid">>,
       <<"AUTH_LDAP_GROUP_FIELD", "memberOf">>,
       <<"AUTH_LDAP_FIRSTNAME_FIELD", "givenName">>,
       <<"AUTH_LDAP_LASTNAME_FIELD", "sn">>,
       <<"AUTH_LDAP_EMAIL_FIELD", "mail">> >>

\* _init_config, lines 420-421: rate limiting
RateLimitDefaults ==
    << <<"AUTH_RATE_LIMITED", TRUE>>,
       <<"AUTH_RATE_LIMIT", "5 per 40 second">> >>

\* _init_config, lines 382-392: the configuration after the base defaults
BaseConfig(cfg) ==
    LET c1 == setdefaults(cfg, BaseSecurityDefaults)
    IN  setdefaults(c1, RegistrationDefaults(c1))

\* A variant of the LDAP check that never raises (used to validate C8).
LdapServerMissingNever(cfg) == FALSE

\* _init_config, lines 395-397: the condition under which it raises
LdapServerMissing(cfg) ==
    auth_type(cfg) = AUTH_LDAP /\ "AUTH_LDAP_SERVER" \notin DOMAIN cfg

\* _init_config, lines 374-421: the configuration it leaves when it returns
InitConfigResult(cfg) ==
    LET c2 == BaseConfig(cfg)
        c3 == IF auth_type(c2) = AUTH_LDAP THEN setdefaults(c2, LdapDefaults) ELSE c2
    IN  setdefaults(c3, RateLimitDefaults)

(***************************************************************************)
(* OAuth provider descriptors (OAUTH_PROVIDERS)                            *)
(***************************************************************************)
ProviderNames == {"google"}

WhiteLists == { <<"a@x.com">> }

\* A descriptor is a dict with "name", "remote_app" and optionally "whitelist".
ProviderDescriptors ==
    { ("name" :> n) @@ ("remote_app" :> "app") : n \in ProviderNames }
    \cup { ("name" :> n) @@ ("remote_app" :> "app") @@ ("whitelist" :> w) :
             n \in ProviderNames, w \in WhiteLists }

ProviderLists == { << >> } \cup { <<p>> : p \in ProviderDescriptors }

\* _init_auth, lines 439-449: the allow-list registry after the provider loop
RECURSIVE RegisterProviders(_, _)
RegisterProviders(allow, providers) ==
    IF providers = << >> THEN allow
    ELSE LET provider == Head(providers)
             provider_name == provider["name"]
             allow1 == IF "whitelist" \in DOMAIN provider
                       THEN [k \in (DOMAIN allow) \cup {provider_name} |->
                               IF k = provider_name THEN provider["whitelist"]
                               ELSE allow[k]]
                       ELSE allow
         IN  RegisterProviders(allow1, Tail(providers))

\* _init_auth, lines 439-449: the remotes registered by the provider loop
RemoteNames(providers) == { providers[i]["name"] : i \in DOMAIN providers }

(***************************************************************************)
(* Initial configurations                                                  *)
(***************************************************************************)
EmptyDict == [k \in {} |-> None]

InitialConfigs ==
    LET types == { EmptyDict } \cup { ("AUTH_TYPE" :> t) : t \in AuthTypes }
        servers == { EmptyDict, ("AUTH_LDAP_SERVER" :> "ldap://ldap.example.com") }
        withProviders(c) ==
            IF "AUTH_TYPE" \in DOMAIN c /\ c["AUTH_TYPE"] = AUTH_OAUTH
            THEN { c @@ ("OAUTH_PROVIDERS" :> p) : p \in ProviderLists }
            ELSE { c }
    IN  UNION { withProviders(t @@ s) : t \in types, s \in servers }
        \cup { ("AUTH_TYPE" :> AUTH_OAUTH) }

(***************************************************************************)
(* Users, identities and session payloads                                  *)
(***************************************************************************)
\* Primary keys of the rows of the user table.
UserIds == {7, 42}

\* Ids that match no row of the user table.
UnknownIds == {9}

Passwords == {"pw1"}

\* werkzeug.security.generate_password_hash: a one-way hash of the password
generate_password_hash(password) == <<"pbkdf2:sha256", password>>

InitialHash == <<"pbkdf2:sha256", "old">>

\* Python values of the identity handed to load_user: an int or a str.
PyIntVal(n) == [t |-> "int", int |-> n, str |-> << >>]
PyStrVal(s) == [t |-> "str", int |-> 0, str |-> s]

Digits == <<"0", "1", "2", "3", "4", "5", "6", "7", "8", "9">>

IsDigit(c) == \E d \in 1..10 : Digits[d] = c

DigitValue(c) == (CHOOSE d \in 1..10 : Digits[d] = c) - 1

\* str(n) for n >= 0
RECURSIVE PyStr(_)
PyStr(n) == IF n < 10 THEN <<Digits[n + 1]>>
            ELSE PyStr(n \div 10) \o <<Digits[(n % 10) + 1]>>

RECURSIVE ParseDigits(_, _)
ParseDigits(s, acc) ==
    IF s = << >> THEN acc
    ELSE ParseDigits(Tail(s), acc * 10 + DigitValue(Head(s)))

\* int(x): an int is returned as it is, a str of decimal digits is parsed,
\* any other str raises ValueError.
PyInt(x) ==
    IF x.t = "int" THEN [ok |-> TRUE, value |-> x.int]
    ELSE IF x.str # << >> /\ \A i \in DOMAIN x.str : IsDigit(x.str[i])
         THEN [ok |-> TRUE, value |-> ParseDigits(x.str, 0)]
         ELSE [ok |-> FALSE, value |-> 0]

IdentityInputs ==
    { PyIntVal(n) : n \in UserIds \cup UnknownIds }
    \cup { PyStrVal(PyStr(n)) : n \in UserIds }
    \cup { PyStrVal(<<"x">>) }

\* The dict a session payload deserializes to.
SessionDetails ==
    { ("_user_id" :> n) @@ ("_fresh" :> TRUE) : n \in UserIds }

\* interface.serializer.dumps
Dumps(session_details) == <<"pickle", session_details>>

\* A payload the serializer cannot load.
CorruptData == <<"garbage", EmptyDict>>

\* s.data of the rows modelled one by one
Payloads == { Dumps(d) : d \in SessionDetails } \cup { CorruptData }

\* interface.serializer.loads(want_bytes(s.data)): raises on a corrupt payload
Loads(data) ==
    IF data[1] = "pickle" THEN [ok |-> TRUE, value |-> data[2]]
    ELSE [ok |-> FALSE, value |-> EmptyDict]

RECURSIVE SeqsUpTo(_, _)
SeqsUpTo(S, n) ==
    IF n = 0 THEN { << >> }
    ELSE LET shorter == SeqsUpTo(S, n - 1)
         IN  shorter \cup { Append(q, x) : q \in shorter, x \in S }

\* Rows of the session table that are not modelled one by one: their payload
\* loads and carries no "_user_id" or the id of none of the users above (the
\* sessions of anonymous visitors and of automated API calls).
BulkChoices ==
    {0, MAX_NUM_DATABASE_USER_SESSIONS - MaxTracked,
        MAX_NUM_DATABASE_USER_SESSIONS - MaxTracked + 1}

\* isinstance(session_interface, AirflowDatabaseSessionInterface) or not
SessionInterfaces == {"AirflowDatabaseSessionInterface", "SecureCookieSessionInterface"}

(***************************************************************************)
(* State                                                                   *)
(***************************************************************************)
VARIABLES
    config,            \* appbuilder.app.config
    phase,             \* "constructing", "ready" or "failed" (of __init__)
    init_pc,           \* index in InitSteps of the next call of __init__
    init_error,        \* the exception __init__ ended with, or None
    oid,               \* self.oid is set
    oauth_remotes,     \* names registered in self.oauth_remotes
    oauth_allow_list,  \* the class attribute oauth_allow_list
    datamodel_view,    \* the user view that received the user data model
    builtin_roles,     \* self._builtin_roles is set
    db_created,        \* create_db has returned
    lm,                \* the callback registered by lm.user_loader, or None
    jwt_manager,       \* the callback registered by user_lookup_loader, or None
    session_interface, \* class of app.session_interface
    store,             \* rows of the session table modelled one by one (s.data)
    bulk,              \* number of the other rows of the session table
    users,             \* user table: id -> stored password hash
    req,               \* the request being served, or the last one served
    constructed,       \* number of managers constructed in this process
    session_table,     \* session table with row identities: id -> s.data
    next_sid,          \* id the next row inserted in the session table gets
    pass,              \* per worker thread: its call of reset_user_sessions
    deleted            \* the rows handed to session.delete so far, and by whom

vars == <<config, phase, init_pc, init_error, oid, oauth_remotes, oauth_allow_list,
          datamodel_view, builtin_roles, db_created, lm, jwt_manager,
          session_interface, store, bulk, users, req,
          constructed, session_table, next_sid, pass, deleted>>

passVars == <<session_table, next_sid, pass, deleted>>

managerVars == <<config, phase, init_pc, init_error, oid, oauth_remotes,
                 oauth_allow_list, datamodel_view, builtin_roles, db_created,
                 lm, jwt_manager>>

envVars == <<session_interface, bulk>>

NoRequest ==
    [op |-> "none", pc |-> "idle", userid |-> 0, password |-> None,
     user |-> [id |-> 0, password |-> << >>], error |-> None, result |-> 0,
     g_user |-> 0, flashes |-> << >>, calls |-> << >>,
     store0 |-> << >>, users0 |-> [u \in UserIds |-> InitialHash]]

\* Worker threads serving password resets side by side.
Workers == {"w1", "w2"}

\* A worker that is not inside reset_user_sessions.
NoPass ==
    [pc |-> "idle", user_id |-> 0, first_new |-> 0, rows |-> {}]

\* The part of the state that only the concurrent passes touch, at start.
PassInit ==
    /\ session_table = EmptyDict
    /\ next_sid = 1
    /\ pass = [w \in Workers |-> NoPass]
    /\ deleted = {}

Init ==
    /\ constructed = 1
    /\ PassInit
    /\ config \in InitialConfigs
    /\ phase = "constructing"
    /\ init_pc = 1
    /\ init_error = None
    /\ oid = FALSE
    /\ oauth_remotes = {}
    /\ oauth_allow_list = EmptyDict
    /\ datamodel_view = None
    /\ builtin_roles = FALSE
    /\ db_created = FALSE
    /\ lm = None
    /\ jwt_manager = None
    /\ session_interface \in SessionInterfaces
    /\ store \in SeqsUpTo(Payloads, MaxTracked)
    /\ bulk \in BulkChoices
    /\ users = [u \in UserIds |-> InitialHash]
    /\ req = NoRequest

(***************************************************************************)
(* __init__, lines 130-142                                                 *)
(***************************************************************************)
\* A variant of the order of the calls with the login manager created before
\* the roles and the database (used to validate C9).
InitStepsLoginFirst ==
    <<"_init_config", "_init_auth", "_init_data_model", "create_login_manager",
      "create_builtin_roles", "create_db", "create_jwt_manager">>

\* The calls of __init__ in the order of lines 130-142.
InitSteps ==
    <<"_init_config", "_init_auth", "_init_data_model", "create_builtin_roles",
      "create_db", "create_login_manager", "create_jwt_manager">>

AtStep(name) ==
    /\ phase = "constructing"
    /\ init_pc \in DOMAIN InitSteps
    /\ InitSteps[init_pc] = name

\* The step returned: __init__ goes on, and is over after the last call.
StepReturns ==
    /\ init_pc' = init_pc + 1
    /\ phase' = IF init_pc = Len(InitSteps) THEN "ready" ELSE "constructing"
    /\ init_error' = init_error

\* The step raised: the exception leaves __init__.
StepRaises(exc) ==
    /\ init_pc' = init_pc
    /\ phase' = "failed"
    /\ init_error' = exc

\* _init_config, lines 374-421
init_config ==
    /\ AtStep("_init_config")
    /\ IF LdapServerMissing(BaseConfig(config))
       THEN /\ config' = BaseConfig(config)
            /\ StepRaises("ConfigurationError")
       ELSE /\ config' = InitConfigResult(config)
            /\ StepReturns
    /\ UNCHANGED <<oid, oauth_remotes, oauth_allow_list, datamodel_view,
                   builtin_roles, db_created, lm, jwt_manager,
                   session_interface, store, bulk, users, req,
                   constructed, passVars>>

\* _init_auth, lines 423-449
init_auth ==
    /\ AtStep("_init_auth")
    /\ oid' = (oid \/ auth_type(config) = AUTH_OID)
    /\ IF auth_type(config) = AUTH_OAUTH
       THEN IF "OAUTH_PROVIDERS" \in DOMAIN config
            THEN /\ oauth_remotes' = RemoteNames(oauth_providers(config))
                 /\ oauth_allow_list' =
                        RegisterProviders(oauth_allow_list, oauth_providers(config))
                 /\ StepReturns
            ELSE /\ oauth_remotes' = {}
                 /\ oauth_allow_list' = oauth_allow_list
                 /\ StepRaises("KeyError")
       ELSE /\ UNCHANGED <<oauth_remotes, oauth_allow_list>>
            /\ StepReturns
    /\ UNCHANGED <<config, datamodel_view, builtin_roles, db_created, lm,
                   jwt_manager, session_interface, store, bulk, users, req,
                   constructed, passVars>>

\* _init_data_model, lines 451-472: the view that gets the user data model
UserView(type) ==
    CASE type = AUTH_DB -> "userdbmodelview"
      [] type = AUTH_LDAP -> "userldapmodelview"
      [] type = AUTH_OID -> "useroidmodelview"
      [] type = AUTH_OAUTH -> "useroauthmodelview"
      [] type = AUTH_REMOTE_USER -> "userremoteusermodelview"
      [] OTHER -> None

\* _init_data_model, lines 451-472
init_data_model ==
    /\ AtStep("_init_data_model")
    /\ datamodel_view' = UserView(auth_type(config))
    /\ StepReturns
    /\ UNCHANGED <<config, oid, oauth_remotes, oauth_allow_list, builtin_roles,
                   db_created, lm, jwt_manager, session_interface, store, bulk,
                   users, req,
                   constructed, passVars>>

\* create_builtin_roles, lines 370-372, assigned at line 134
create_builtin_roles ==
    /\ AtStep("create_builtin_roles")
    /\ builtin_roles' = TRUE
    /\ StepReturns
    /\ UNCHANGED <<config, oid, oauth_remotes, oauth_allow_list, datamodel_view,
                   db_created, lm, jwt_manager, session_interface, store, bulk,
                   users, req,
                   constructed, passVars>>

\* create_db, called at line 136: it persists the roles and permissions, and
\* a failure to persist them is fatal to startup.
create_db ==
    /\ AtStep("create_db")
    /\ \/ /\ db_created' = TRUE
          /\ StepReturns
       \/ /\ db_created' = FALSE
          /\ StepRaises("ProvisioningError")
    /\ UNCHANGED <<config, oid, oauth_remotes, oauth_allow_list, datamodel_view,
                   builtin_roles, lm, jwt_manager, session_interface, store, bulk,
                   users, req,
                   constructed, passVars>>

\* create_login_manager, lines 248-254, assigned at line 139
create_login_manager ==
    /\ AtStep("create_login_manager")
    /\ lm' = "load_user"
    /\ StepReturns
    /\ UNCHANGED <<config, oid, oauth_remotes, oauth_allow_list, datamodel_view,
                   builtin_roles, db_created, jwt_manager, session_interface,
                   store, bulk, users, req,
                   constructed, passVars>>

\* create_jwt_manager, lines 256-260
create_jwt_manager ==
    /\ AtStep("create_jwt_manager")
    /\ jwt_manager' = "load_user_jwt"
    /\ StepReturns
    /\ UNCHANGED <<config, oid, oauth_remotes, oauth_allow_list, datamodel_view,
                   builtin_roles, db_created, lm, session_interface, store, bulk,
                   users, req,
                   constructed, passVars>>

(***************************************************************************)
(* Requests                                                                *)
(***************************************************************************)
\* get_user_by_id (inherited): the row of the user table with that primary
\* key; it fails with UserNotFound when there is none.
get_user_by_id(table, key) ==
    IF key.t = "int" /\ key.int \in DOMAIN table
    THEN [ok |-> TRUE, user |-> [id |-> key.int, password |-> table[key.int]]]
    ELSE [ok |-> FALSE, user |-> [id |-> 0, password |-> << >>]]

\* A variant of the threshold test that also refuses a store holding exactly
\* the limit (used to validate C2).
TooManySessionsAtLimit(num_sessions) ==
    num_sessions >= MAX_NUM_DATABASE_USER_SESSIONS

\* reset_user_sessions, line 281
TooManySessions(num_sessions) ==
    num_sessions > MAX_NUM_DATABASE_USER_SESSIONS

\* A variant of the owner test that matches every logged-in session (used to
\* validate C1).
OwnedByAnyUser(session_details, user_id) ==
    "_user_id" \in DOMAIN session_details

\* reset_user_sessions, line 298: session_details.get("_user_id") == user.id
OwnedBy(session_details, user_id) ==
    /\ "_user_id" \in DOMAIN session_details
    /\ session_details["_user_id"] = user_id

\* A variant of the interface test that takes every interface for the
\* database one (used to validate C6).
IsDatabaseInterfaceAlways(interface) == TRUE

\* reset_user_sessions, line 276
IsDatabaseInterface(interface) ==
    interface = "AirflowDatabaseSessionInterface"

\* reset_user_sessions, lines 296-299: the loop over the rows.  A payload that
\* does not load raises out of the loop; the rows not yet visited stay, the
\* rows already handed to session.delete are gone.
RECURSIVE DeleteLoop(_, _)
DeleteLoop(rows, user_id) ==
    IF rows = << >> THEN [kept |-> << >>, deleted |-> 0, raised |-> FALSE]
    ELSE LET s == Head(rows)
             loaded == Loads(s)
         IN  IF ~loaded.ok
             THEN [kept |-> rows, deleted |-> 0, raised |-> TRUE]
             ELSE LET rest == DeleteLoop(Tail(rows), user_id)
                  IN  IF OwnedBy(loaded.value, user_id)
                      THEN [rest EXCEPT !.deleted = @ + 1]
                      ELSE [rest EXCEPT !.kept = <<s>> \o @]

RECURSIVE Repeat(_, _)
Repeat(x, n) == IF n = 0 THEN << >> ELSE <<x>> \o Repeat(x, n - 1)

\* reset_user_sessions, lines 275-311: what one call leaves
reset_user_sessions_result(interface, rows, others, user) ==
    IF IsDatabaseInterface(interface)
    THEN LET num_sessions == Len(rows) + others
         IN  IF TooManySessions(num_sessions)
             THEN [store |-> rows, flashes |-> <<"too_many_sessions">>,
                   calls |-> <<"count", "flash">>, raised |-> FALSE]
             ELSE LET loop == DeleteLoop(rows, user.id)
                  IN  [store |-> loop.kept, flashes |-> << >>,
                       calls |-> <<"count", "query">> \o Repeat("delete", loop.deleted),
                       raised |-> loop.raised]
    ELSE [store |-> rows, flashes |-> <<"securecookie">>,
          calls |-> <<"flash">>, raised |-> FALSE]

Idle == phase = "ready" /\ req.pc \in {"idle", "done", "failed"}

\* A variant of reset_password that goes on to reset_user_sessions and
\* update_user when no user was found (used to validate C7).
reset_password_begin_unchecked(userid, password) ==
    /\ Idle
    /\ req' = [NoRequest EXCEPT !.op = "reset_password", !.userid = userid,
                 !.password = password, !.store0 = store, !.users0 = users,
                 !.calls = <<"get_user_by_id">>,
                 !.pc = "reset_user_sessions",
                 !.user = [id |-> userid,
                           password |-> generate_password_hash(password)]]
    /\ UNCHANGED <<constructed, passVars, managerVars, envVars, store, users>>

\* reset_password, lines 270-271
reset_password_begin(userid, password) ==
    /\ Idle
    /\ LET found == get_user_by_id(users, PyIntVal(userid))
           fresh == [NoRequest EXCEPT !.op = "reset_password", !.userid = userid,
                                      !.password = password, !.store0 = store,
                                      !.users0 = users,
                                      !.calls = <<"get_user_by_id">>]
       IN  IF found.ok
           THEN req' = [fresh EXCEPT !.pc = "reset_user_sessions",
                          !.user = [found.user EXCEPT
                                      !.password = generate_password_hash(password)]]
           ELSE req' = [fresh EXCEPT !.pc = "failed", !.error = "UserNotFound"]
    /\ UNCHANGED <<constructed, passVars, managerVars, envVars, store, users>>

\* reset_password, line 272
reset_password_sessions ==
    /\ phase = "ready"
    /\ req.op = "reset_password"
    /\ req.pc = "reset_user_sessions"
    /\ LET r == reset_user_sessions_result(session_interface, store, bulk, req.user)
       IN  /\ store' = r.store
           /\ req' = [req EXCEPT !.flashes = @ \o r.flashes,
                                 !.calls = @ \o r.calls,
                                 !.pc = IF r.raised THEN "failed" ELSE "update_user",
                                 !.error = IF r.raised THEN "DeserializationError" ELSE @]
    /\ UNCHANGED <<constructed, passVars, managerVars, envVars, users>>

\* reset_password, line 273
reset_password_update ==
    /\ phase = "ready"
    /\ req.op = "reset_password"
    /\ req.pc = "update_user"
    /\ users' = [users EXCEPT ![req.user.id] = req.user.password]
    /\ req' = [req EXCEPT !.calls = @ \o <<"update_user">>, !.pc = "done"]
    /\ UNCHANGED <<constructed, passVars, managerVars, envVars, store>>

\* A variant of load_user that hands the identity to get_user_by_id as it
\* came (used to validate C10).
load_user_result_unconverted(table, user_id) ==
    LET found == get_user_by_id(table, user_id)
    IN  IF found.ok THEN [error |-> None, id |-> found.user.id]
        ELSE [error |-> "UserNotFound", id |-> 0]

\* load_user, lines 313-315: get_user_by_id(int(user_id))
load_user_result(table, user_id) ==
    LET n == PyInt(user_id)
    IN  IF ~n.ok THEN [error |-> "ValueError", id |-> 0]
        ELSE LET found == get_user_by_id(table, PyIntVal(n.value))
             IN  IF found.ok THEN [error |-> None, id |-> found.user.id]
                 ELSE [error |-> "UserNotFound", id |-> 0]

\* load_user, called through the loader registered on the login manager
load_user(user_id) ==
    /\ Idle
    /\ lm = "load_user"
    /\ LET r == load_user_result(users, user_id)
       IN  req' = [NoRequest EXCEPT !.op = "load_user", !.store0 = store,
                     !.users0 = users,
                     !.userid = user_id, !.calls = <<"get_user_by_id">>,
                     !.pc = IF r.error = None THEN "done" ELSE "failed",
                     !.error = r.error, !.result = r.id]
    /\ UNCHANGED <<constructed, passVars, managerVars, envVars, store, users>>

\* load_user_jwt, lines 317-322, called through the loader registered on the
\* JWT manager; jwt_data["sub"] is the identity
load_user_jwt(jwt_data) ==
    /\ Idle
    /\ jwt_manager = "load_user_jwt"
    /\ LET identity == jwt_data["sub"]
           r == load_user_result(users, identity)
       IN  req' = [NoRequest EXCEPT !.op = "load_user_jwt", !.store0 = store,
                     !.users0 = users,
                     !.userid = identity, !.calls = <<"get_user_by_id">>,
                     !.pc = IF r.error = None THEN "done" ELSE "failed",
                     !.error = r.error, !.result = r.id,
                     !.g_user = IF r.error = None THEN r.id ELSE 0]
    /\ UNCHANGED <<constructed, passVars, managerVars, envVars, store, users>>

(***************************************************************************)
(* reset_user_sessions step by step, on worker threads that run side by    *)
(* side with each other and with logins.  No lock is held from the count   *)
(* to the last delete.                                                     *)
(***************************************************************************)
\* The state once __init__ has returned with the default configuration.
ManagerReady ==
    /\ constructed = 1
    /\ config = InitConfigResult(EmptyDict)
    /\ phase = "ready"
    /\ init_pc = Len(InitSteps) + 1
    /\ init_error = None
    /\ oid = FALSE
    /\ oauth_remotes = {}
    /\ oauth_allow_list = EmptyDict
    /\ datamodel_view = UserView(AUTH_DB)
    /\ builtin_roles = TRUE
    /\ db_created = TRUE
    /\ lm = "load_user"
    /\ jwt_manager = "load_user_jwt"

InitConcurrent ==
    /\ ManagerReady
    /\ PassInit
    /\ session_interface \in SessionInterfaces
    /\ store = << >>
    /\ bulk \in BulkChoices
    /\ users = [u \in UserIds |-> InitialHash]
    /\ req = NoRequest

\* The rows a query returns.  Without ORDER BY their order is not fixed, so
\* the loop may take the rows it has not visited yet in any order.
QueryRows(tbl) == { [sid |-> sid, data |-> tbl[sid]] : sid \in DOMAIN tbl }

\* The call is over (it returned, or raised): its locals are gone.  The
\* outcome tells whether it flashed a warning.
Returned(outcome) == [NoPass EXCEPT !.pc = outcome]

PassOver(w) == pass[w].pc \in {"idle", "done", "skipped", "raised", "unsupported"}

\* A login (or any other writer of the session table) inserts a row.
create_session(data) ==
    /\ phase = "ready"
    /\ next_sid <= MaxTracked
    /\ session_table' = session_table @@ (next_sid :> data)
    /\ next_sid' = next_sid + 1
    /\ UNCHANGED <<constructed, managerVars, envVars, store, users, req, pass, deleted>>

\* reset_user_sessions, lines 275-279 and 300-311: the call starts
pass_begin(w, user_id) ==
    /\ phase = "ready"
    /\ PassOver(w)
    /\ IF IsDatabaseInterface(session_interface)
       THEN pass' = [pass EXCEPT ![w] = [NoPass EXCEPT !.pc = "count",
                                                        !.user_id = user_id]]
       ELSE pass' = [pass EXCEPT ![w] = Returned("unsupported")]
    /\ UNCHANGED <<constructed, managerVars, envVars, store, users, req,
                   session_table, next_sid, deleted>>

\* reset_user_sessions, lines 280-294: the count and the threshold test
pass_count(w) ==
    /\ pass[w].pc = "count"
    /\ LET num_sessions == Cardinality(DOMAIN session_table) + bulk
       IN  IF TooManySessions(num_sessions)
           THEN pass' = [pass EXCEPT ![w] = Returned("skipped")]
           ELSE pass' = [pass EXCEPT ![w].pc = "query",
                                     ![w].first_new = next_sid]
    /\ UNCHANGED <<constructed, managerVars, envVars, store, users, req,
                   session_table, next_sid, deleted>>

\* reset_user_sessions, line 296: the query of the loop is executed
pass_query(w) ==
    /\ pass[w].pc = "query"
    /\ LET rows == QueryRows(session_table)
       IN  IF rows = {}
           THEN pass' = [pass EXCEPT ![w] = Returned("done")]
           ELSE pass' = [pass EXCEPT ![w].rows = rows, ![w].pc = "loop"]
    /\ UNCHANGED <<constructed, managerVars, envVars, store, users, req,
                   session_table, next_sid, deleted>>

\* reset_user_sessions, lines 297-299: one turn of the loop
pass_step(w) ==
    /\ pass[w].pc = "loop"
    /\ \E s \in pass[w].rows :
       LET loaded == Loads(s.data)
           last == pass[w].rows = {s}
       IN  IF ~loaded.ok
           THEN /\ pass' = [pass EXCEPT ![w] = Returned("raised")]
                /\ UNCHANGED <<session_table, deleted>>
           ELSE /\ IF last
                   THEN pass' = [pass EXCEPT ![w] = Returned("done")]
                   ELSE pass' = [pass EXCEPT ![w].rows = @ \ {s}]
                /\ IF OwnedBy(loaded.value, pass[w].user_id)
                   THEN /\ session_table' =
                              [k \in DOMAIN session_table \ {s.sid} |-> session_table[k]]
                        /\ deleted' = deleted \cup
                              {[sid |-> s.sid, data |-> s.data, by |-> pass[w].user_id]}
                   ELSE UNCHANGED <<session_table, deleted>>
    /\ UNCHANGED <<constructed, managerVars, envVars, store, users, req, next_sid>>

NextConcurrent ==
    \/ \E data \in Payloads : create_session(data)
    \/ \E w \in Workers, user_id \in UserIds : pass_begin(w, user_id)
    \/ \E w \in Workers : pass_count(w)
    \/ \E w \in Workers : pass_query(w)
    \/ \E w \in Workers : pass_step(w)

SpecConcurrent == InitConcurrent /\ [][NextConcurrent]_vars

(***************************************************************************)
(* Several managers constructed one after the other in one process.  The   *)
(* class attribute oauth_allow_list (line 100) is one dict shared by all   *)
(* of them: __init__ never rebinds it, _init_auth only stores into it.     *)
(***************************************************************************)
InitManagers ==
    /\ constructed = 1
    /\ PassInit
    /\ config \in InitialConfigs
    /\ phase = "constructing"
    /\ init_pc = 1
    /\ init_error = None
    /\ oid = FALSE
    /\ oauth_remotes = {}
    /\ oauth_allow_list = EmptyDict
    /\ datamodel_view = None
    /\ builtin_roles = FALSE
    /\ db_created = FALSE
    /\ lm = None
    /\ jwt_manager = None
    /\ session_interface = "AirflowDatabaseSessionInterface"
    /\ store = << >>
    /\ bulk = 0
    /\ users = [u \in UserIds |-> InitialHash]
    /\ req = NoRequest

\* __init__, lines 102-129: a further manager is constructed, on an app with
\* the configuration cfg.  Its instance attributes are fresh; the class
\* attribute oauth_allow_list is the one the earlier managers wrote.
new_manager(cfg) ==
    /\ phase \in {"ready", "failed"}
    /\ constructed < MaxManagers
    /\ constructed' = constructed + 1
    /\ config' = cfg
    /\ phase' = "constructing"
    /\ init_pc' = 1
    /\ init_error' = None
    /\ oid' = FALSE
    /\ oauth_remotes' = {}
    /\ datamodel_view' = None
    /\ builtin_roles' = FALSE
    /\ db_created' = FALSE
    /\ lm' = None
    /\ jwt_manager' = None
    /\ UNCHANGED <<oauth_allow_list, envVars, store, users, req, passVars>>

NextManagers ==
    \/ init_config
    \/ init_auth
    \/ init_data_model
    \/ create_builtin_roles
    \/ create_db
    \/ create_login_manager
    \/ create_jwt_manager
    \/ \E cfg \in InitialConfigs : new_manager(cfg)

SpecManagers == InitManagers /\ [][NextManagers]_vars

Next ==
    \/ init_config
    \/ init_auth
    \/ init_data_model
    \/ create_builtin_roles
    \/ create_db
    \/ create_login_manager
    \/ create_jwt_manager
    \/ \E userid \in UserIds \cup UnknownIds, password \in Passwords :
          reset_password_begin(userid, password)
    \/ reset_password_sessions
    \/ reset_password_update
    \/ \E user_id \in IdentityInputs : load_user(user_id)
    \/ \E identity \in IdentityInputs : load_user_jwt([sub |-> identity])

Spec == Init /\ [][Next]_vars

(***************************************************************************)
(* Vocabulary of the properties                                            *)
(***************************************************************************)
Queryable == session_interface = "AirflowDatabaseSessionInterface"

\* Number of rows of the session table when the request started.
Total0 == Len(req.store0) + bulk

Loadable(data) == data[1] = "pickle"

AllLoadable(rows) == \A i \in DOMAIN rows : Loadable(rows[i])

SessionOf(data, user_id) ==
    /\ Loadable(data)
    /\ "_user_id" \in DOMAIN data[2]
    /\ data[2]["_user_id"] = user_id

HasSessionOf(rows, user_id) == \E i \in DOMAIN rows : SessionOf(rows[i], user_id)

SessionsOfOthers(rows, user_id) ==
    LET other(data) == ~SessionOf(data, user_id)
    IN  SelectSeq(rows, other)

Count(calls, name) == Cardinality({ i \in DOMAIN calls : calls[i] = name })

\* reset_password has called reset_user_sessions and the call is over.
RevocationOver ==
    /\ req.op = "reset_password"
    /\ \/ req.pc \in {"update_user", "done"}
       \/ req.pc = "failed" /\ req.error = "DeserializationError"

\* reset_password is over, for a user that exists.
ResetOver ==
    /\ req.op = "reset_password"
    /\ req.pc \in {"done", "failed"}
    /\ req.userid \in DOMAIN users

LdapWithoutServer ==
    /\ "AUTH_TYPE" \in DOMAIN config
    /\ config["AUTH_TYPE"] = AUTH_LDAP
    /\ "AUTH_LDAP_SERVER" \notin DOMAIN config

(***************************************************************************)
(* Properties                                                              *)
(***************************************************************************)
\* C1: on a queryable store of at most MAX_NUM_DATABASE_USER_SESSIONS rows
\* whose payloads all load, once reset_password has run reset_user_sessions
\* for user U the store holds exactly the rows it held before whose owner is
\* not U, in their order and unmodified.
C1_ExactRevocation ==
    ( /\ RevocationOver
      /\ Queryable
      /\ Total0 <= MAX_NUM_DATABASE_USER_SESSIONS
      /\ AllLoadable(req.store0) )
    => /\ store = SessionsOfOthers(req.store0, req.user.id)
       /\ req.error = None
       /\ Count(req.calls, "delete") = Len(req.store0) - Len(store)

C1_Witness ==
    /\ RevocationOver
    /\ Queryable
    /\ Total0 <= MAX_NUM_DATABASE_USER_SESSIONS
    /\ AllLoadable(req.store0)
    /\ HasSessionOf(req.store0, req.user.id)
    /\ \E other \in UserIds \ {req.user.id} : HasSessionOf(store, other)
    /\ Len(store) < Len(req.store0)

\* C2: on a queryable store, with more rows than the limit (limit + 1 or
\* more) reset_user_sessions deletes nothing and only emits the warning; with
\* exactly the limit it emits no warning, enters the loop and, the payloads
\* all loading, deletes the sessions of the user.
C2_ThresholdBoundary ==
    (RevocationOver /\ Queryable)
    => /\ Total0 >= MAX_NUM_DATABASE_USER_SESSIONS + 1
          => /\ store = req.store0
             /\ req.flashes = <<"too_many_sessions">>
             /\ Count(req.calls, "delete") = 0
             /\ Count(req.calls, "query") = 0
       /\ Total0 = MAX_NUM_DATABASE_USER_SESSIONS
          => /\ req.flashes = << >>
             /\ Count(req.calls, "query") = 1
             /\ AllLoadable(req.store0)
                  => store = SessionsOfOthers(req.store0, req.user.id)

C2_Witness ==
    /\ RevocationOver
    /\ Queryable
    /\ Total0 = MAX_NUM_DATABASE_USER_SESSIONS
    /\ AllLoadable(req.store0)
    /\ HasSessionOf(req.store0, req.user.id)
    /\ ~HasSessionOf(store, req.user.id)

\* C3: during reset_password the persisting write of the user record
\* (update_user) precedes the first session deletion.
C3_PersistBeforeRevocation ==
    req.op = "reset_password"
    => \A i \in DOMAIN req.calls :
          req.calls[i] = "delete"
          => \E j \in 1..(i - 1) : req.calls[j] = "update_user"

\* C4: reset_password for an existing user always ends with update_user run
\* and the hash of the new password stored, whatever reset_user_sessions did.
C4_ResetAlwaysPersists ==
    ResetOver
    => /\ Count(req.calls, "update_user") = 1
       /\ users[req.userid] = generate_password_hash(req.password)

\* C5: on a queryable store of at most the limit, corrupt payloads are
\* skipped: the call does not fail and no loadable session of the user is
\* left when it returns.
C5_CorruptSkipped ==
    ( /\ RevocationOver
      /\ Queryable
      /\ Total0 <= MAX_NUM_DATABASE_USER_SESSIONS )
    => /\ req.error = None
       /\ ~HasSessionOf(store, req.user.id)

\* C6: with a session interface that is not the database one,
\* reset_user_sessions counts, iterates and deletes nothing, emits exactly one
\* warning and returns normally; the store is unchanged.
C6_UnsupportedStore ==
    (RevocationOver /\ ~Queryable)
    => /\ store = req.store0
       /\ req.flashes = <<"securecookie">>
       /\ Count(req.calls, "count") = 0
       /\ Count(req.calls, "query") = 0
       /\ Count(req.calls, "delete") = 0
       /\ Count(req.calls, "flash") = 1
       /\ req.error = None

C6_Witness ==
    /\ RevocationOver
    /\ ~Queryable
    /\ HasSessionOf(req.store0, req.user.id)
    /\ req.pc = "done"

\* C7: reset_password with an id that matches no user fails with
\* UserNotFound and changes nothing: no user record written, no session
\* counted or deleted, no warning.
C7_UnknownUser ==
    (req.op = "reset_password" /\ req.userid \notin DOMAIN users)
    => /\ req.pc = "failed"
       /\ req.error = "UserNotFound"
       /\ req.calls = <<"get_user_by_id">>
       /\ req.flashes = << >>
       /\ store = req.store0
       /\ users = req.users0

C7_Witness ==
    /\ req.op = "reset_password"
    /\ req.userid \in UnknownIds
    /\ req.pc = "failed"
    /\ store # << >>

\* C8: with AUTH_TYPE LDAP and no AUTH_LDAP_SERVER, __init__ never gets past
\* _init_config, ends with the configuration error, registers no loader and
\* serves no request; with any other configuration _init_config does not fail.
C8_LdapServerRequired ==
    /\ LdapWithoutServer
       => /\ init_pc = 1
          /\ phase \in {"constructing", "failed"}
          /\ phase = "failed" => init_error = "ConfigurationError"
          /\ ~oid /\ oauth_remotes = {} /\ datamodel_view = None
          /\ ~builtin_roles /\ ~db_created
          /\ lm = None /\ jwt_manager = None
          /\ req = NoRequest
    /\ ~LdapWithoutServer
       => /\ init_error # "ConfigurationError"
          /\ phase = "failed" => init_pc > 1

C8_Witness ==
    /\ LdapWithoutServer
    /\ phase = "failed"
    /\ init_error = "ConfigurationError"

\* C9: the loaders load_user and load_user_jwt are registered only after
\* create_builtin_roles and create_db have returned, no request is served
\* before, and when provisioning fails neither loader is registered.
C9_ProvisioningBeforeLoaders ==
    /\ (lm # None \/ jwt_manager # None) => (builtin_roles /\ db_created)
    /\ req # NoRequest => (builtin_roles /\ db_created)
    /\ init_error = "ProvisioningError" => (lm = None /\ jwt_manager = None)

C9_Witness ==
    /\ lm = "load_user"
    /\ jwt_manager = "load_user_jwt"
    /\ builtin_roles
    /\ db_created
    /\ req.op = "load_user_jwt"

\* C10: for every user key k, load_user of the string form of k and
\* load_user of the integer k resolve to the user k, load_user_jwt with
\* subject k returns that user and sets the current user of the request to
\* it, and load_user writes nothing.
C10_OneIdentitySpace ==
    /\ \A k \in UserIds :
          load_user_result(users, PyStrVal(PyStr(k))) =
              load_user_result(users, PyIntVal(k))
    /\ \A k \in UserIds :
          ( /\ req.op \in {"load_user", "load_user_jwt"}
            /\ req.userid \in {PyIntVal(k), PyStrVal(PyStr(k))} )
          => /\ req.pc = "done"
             /\ req.result = k
             /\ req.op = "load_user_jwt" => req.g_user = k
    /\ req.op = "load_user"
          => /\ req.g_user = 0
             /\ store = req.store0
             /\ users = req.users0
             /\ req.flashes = << >>

C10_Witness ==
    /\ req.op = "load_user_jwt"
    /\ req.userid = PyStrVal(<<"4", "2">>)
    /\ req.result = 42
    /\ req.g_user = 42

\* C11: under any interleaving of passes of reset_user_sessions with each
\* other and with session creations, a pass for user U deletes a row only if
\* the owner in its payload is U's id, and a row leaves the table only by
\* such a deletion; rows of other users stay, also when they were inserted
\* between the count and the end of the loop.
C11_OnlyOwnSessionsDeleted ==
    /\ \A d \in deleted : SessionOf(d.data, d.by)
    /\ \A sid \in 1..(next_sid - 1) :
          sid \notin DOMAIN session_table
          => \E d \in deleted : d.sid = sid /\ SessionOf(d.data, d.by)
    /\ \A sid \in DOMAIN session_table : sid \in 1..(next_sid - 1)

C11_Witness ==
    \E w \in Workers, v \in Workers :
        /\ v # w
        /\ pass[w].pc = "loop"
        /\ pass[v].pc = "loop"
        /\ pass[v].user_id # pass[w].user_id
        /\ \E d \in deleted : d.by = pass[w].user_id
        /\ \E sid \in DOMAIN session_table :
              /\ sid >= pass[w].first_new
              /\ SessionOf(session_table[sid], pass[v].user_id)

\* C12: once a manager is constructed with AUTH_TYPE OAUTH and provider list
\* P, oauth_allow_list has an entry for a provider name exactly when a
\* descriptor of that name in P declares a whitelist, and the entry is the
\* declared list, whatever managers were constructed before in the process.
C12_AllowListMatchesProviders ==
    (phase = "ready" /\ auth_type(config) = AUTH_OAUTH)
    => \A name \in ProviderNames :
          LET P == oauth_providers(config)
              declared == { i \in DOMAIN P :
                              /\ P[i]["name"] = name
                              /\ "whitelist" \in DOMAIN P[i] }
          IN  /\ name \in DOMAIN oauth_allow_list <=> declared # {}
              /\ declared # {}
                   => \E i \in declared : oauth_allow_list[name] = P[i]["whitelist"]

====
